---- MODULE Spec2Model ----
(***************************************************************************)
(* A model of the OpenAI status monitor (src/monitor.py).  One monitor     *)
(* instance polls two endpoints with conditional GETs, parses the JSON     *)
(* payloads and prints one line per detected change.                       *)
(*                                                                         *)
(* Text is modelled as TLC strings where the code only formats and         *)
(* compares it (names, statuses, state keys) and as sequences of           *)
(* characters where the code edits it (the ETag header, str.strip).        *)
(* A dict is a function whose DOMAIN is the set of its keys.               *)
(***************************************************************************)
EXTENDS Integers, Sequences, FiniteSets, TLC

VARIABLES
    etags,                      \* self.etags: endpoint -> stored validator
    last_known_state,           \* self.last_known_state: state key -> "name:status"
    processed_incident_updates, \* self.processed_incident_updates
    pc,                         \* where start_monitoring is suspended
    endpoint,                   \* _fetch_with_etag's endpoint argument
    headers,                    \* _fetch_with_etag's request headers
    response,                   \* the answer of the server to the request in flight
    out,                        \* the events printed since the cycle (or call) began
    error,                      \* the exception that left check_status_updates
    outcome,                    \* history: how each fetch of this cycle ended
    fetch_etags,                \* history: self.etags when the request was built
    last200,                    \* history: validator of the latest 200 response
    emitted,                    \* history: incident events printed, per update id
    announced,                  \* history: (name, status) of the latest event, per component id
    call,                       \* history: the latest direct call of a detector
    twin,                       \* the monitor of openai_status_monitor.py, fed the same payloads
    tasks,                      \* the calls of check_status_updates that run side by side
    extract                     \* a call of _extract_products_from_incident: argument, result

vars == <<etags, last_known_state, processed_incident_updates, pc, endpoint,
          headers, response, out, error, outcome, fetch_etags, last200,
          emitted, announced, call, twin,
                   tasks, extract>>

memory == <<last_known_state, processed_incident_updates, out, emitted, announced>>

----------------------------------------------------------------------------
(* Bounds of the model *)

\* longest components list handed to _detect_component_changes directly
MaxComponents == 2
\* most updates of the first incident handed to _detect_incident_updates directly
MaxUpdates == 2

----------------------------------------------------------------------------
(* Python values *)

SUMMARY_ENDPOINT == "/api/v2/summary.json"
INCIDENTS_ENDPOINT == "/api/v2/incidents.json"
Endpoints == {SUMMARY_ENDPOINT, INCIDENTS_ENDPOINT}

\* JSON null, as the value of a field that should hold a string
None == "None"

EmptyDict == [k \in {} |-> <<>>]

DictSet(d, k, v) == (k :> v) @@ d

DictGet(d, k, default) == IF k \in DOMAIN d THEN d[k] ELSE default

\* the characters of an ETag header
Q == "\""

RECURSIVE lstrip(_, _)
lstrip(s, ch) == IF s # <<>> /\ Head(s) = ch THEN lstrip(Tail(s), ch) ELSE s

RECURSIVE rstrip(_, _)
rstrip(s, ch) ==
    IF s # <<>> /\ s[Len(s)] = ch THEN rstrip(SubSeq(s, 1, Len(s) - 1), ch) ELSE s

\* str.strip(ch)
strip(s, ch) == rstrip(lstrip(s, ch), ch)

----------------------------------------------------------------------------
(* The payloads the server can serve *)

CompData(id, name, status) ==
    [id |-> id, name |-> name, status |-> status, updated_at |-> "t", position |-> 1]

UpdateData(id, incident_id) ==
    [id |-> id, body |-> "b", created_at |-> "t", display_at |-> "t",
     status |-> "investigating", incident_id |-> incident_id]

IncidentData(id, name, updates) ==
    [id |-> id, name |-> name, status |-> "investigating", created_at |-> "t",
     updated_at |-> "t", impact |-> "minor", incident_updates |-> updates]

\* summary.json: a changing component, a second component, a record without status
SummaryDocs ==
    << [components |-> << CompData("c1", "API", "operational") >>],
       [components |-> << CompData("c1", "API", "degraded_performance"),
                          CompData("c2", "Sora", "operational") >>],
       [components |-> << [id |-> "c1", name |-> "API"] >>] >>

\* incidents.json: a growing incident, an update id listed under two incidents,
\* an update without body, an incident whose name is null
IncidentDocs ==
    << [incidents |-> << IncidentData("i1", "API errors", << UpdateData("u1", "i1") >>) >>],
       [incidents |-> << IncidentData("i1", "API errors",
                             << UpdateData("u1", "i1"), UpdateData("u2", "i1") >>),
                         IncidentData("i2", "Sora errors", << UpdateData("u2", "i2") >>) >>],
       [incidents |-> << IncidentData("i1", "API errors",
                             << [id |-> "u3", status |-> "investigating"] >>) >>],
       [incidents |-> << IncidentData("i3", None,
                             << UpdateData("u3", "i3"), UpdateData("u4", "i3") >>) >>] >>

Docs(ep) == IF ep = SUMMARY_ENDPOINT THEN SummaryDocs ELSE IncidentDocs

Digits == << "1", "2", "3", "4", "5", "6", "7", "8", "9" >>

\* the entity tag the server gives to version i of a resource: "i", quoted
EntityTag(i) == << Q, Digits[i], Q >>

UpdateIds == {"u1", "u2", "u3", "u4"}
ComponentIds == {"c1", "c2"}

NoResponse ==
    [kind |-> "none", status |-> 0, headers |-> EmptyDict, valid_json |-> FALSE,
     json |-> EmptyDict]

HttpResponse(status, hdrs, valid, doc) ==
    [kind |-> "response", status |-> status, headers |-> hdrs, valid_json |-> valid,
     json |-> doc]

\* what session.get and response.json can produce for one request: a transport
\* failure raised as an aiohttp.ClientError (connection refused or reset, a
\* socket timeout), the expiry of the session's total timeout, raised as
\* asyncio.TimeoutError, a 304, another status, or a 200 serving version i of
\* the resource, with or without its ETag header, with a body that decodes or
\* does not
Responses(ep) ==
    { [NoResponse EXCEPT !.kind = k] : k \in {"ClientError", "TimeoutError"} }
      \cup { HttpResponse(s, EmptyDict, FALSE, EmptyDict) : s \in {304, 500} }
      \cup { HttpResponse(200,
                          IF t[2] THEN DictSet(EmptyDict, "ETag", EntityTag(t[1]))
                                  ELSE EmptyDict,
                          t[3],
                          IF t[3] THEN Docs(ep)[t[1]] ELSE EmptyDict) :
               t \in (1..Len(Docs(ep))) \X BOOLEAN \X BOOLEAN }

----------------------------------------------------------------------------
(* _parse_components, _parse_incidents *)

ComponentKeys == {"id", "name", "status", "updated_at", "position"}
UpdateKeys == {"id", "body", "created_at", "display_at", "status", "incident_id"}
IncidentKeys == {"id", "name", "status", "created_at", "updated_at", "impact"}

ComponentStatus(comp_data) ==
    [id |-> comp_data["id"], name |-> comp_data["name"], status |-> comp_data["status"],
     updated_at |-> comp_data["updated_at"], position |-> comp_data["position"]]

IncidentUpdate(update_data) ==
    [id |-> update_data["id"], body |-> update_data["body"],
     created_at |-> update_data["created_at"], display_at |-> update_data["display_at"],
     status |-> update_data["status"], incident_id |-> update_data["incident_id"]]

Incident(inc_data) ==
    LET update_list == DictGet(inc_data, "incident_updates", <<>>)
    IN  [id |-> inc_data["id"], name |-> inc_data["name"], status |-> inc_data["status"],
         created_at |-> inc_data["created_at"], updated_at |-> inc_data["updated_at"],
         resolved_at |-> DictGet(inc_data, "resolved_at", None),
         impact |-> inc_data["impact"],
         updates |-> [k \in 1..Len(update_list) |-> IncidentUpdate(update_list[k])]]

\* a subscript of a missing key raises KeyError and ends the parse
parse_components(data) ==
    LET comp_list == DictGet(data, "components", <<>>)
    IN  IF \E k \in 1..Len(comp_list) : ~(ComponentKeys \subseteq DOMAIN comp_list[k])
        THEN [raised |-> TRUE, value |-> <<>>]
        ELSE [raised |-> FALSE,
              value |-> [k \in 1..Len(comp_list) |-> ComponentStatus(comp_list[k])]]

parse_incidents(data) ==
    LET inc_list == DictGet(data, "incidents", <<>>)
        Bad(inc_data) ==
            LET update_list == DictGet(inc_data, "incident_updates", <<>>)
            IN  \/ \E k \in 1..Len(update_list) :
                       ~(UpdateKeys \subseteq DOMAIN update_list[k])
                \/ ~(IncidentKeys \subseteq DOMAIN inc_data)
    IN  IF \E k \in 1..Len(inc_list) : Bad(inc_list[k])
        THEN [raised |-> TRUE, value |-> <<>>]
        ELSE [raised |-> FALSE,
              value |-> [k \in 1..Len(inc_list) |-> Incident(inc_list[k])]]

----------------------------------------------------------------------------
(* _log_component_event, _log_incident_event: the printed event.  The id   *)
(* fields are not printed; they tell which record an event is about.       *)

log_component_event(component, event_type) ==
    [kind |-> "component", id |-> component.id, name |-> component.name,
     status |-> component.status, event_type |-> event_type]

\* incident_name.lower() raises AttributeError when the name is not a string
log_incident_raises(incident) == incident.name = None

log_incident_event(incident, update) ==
    [kind |-> "incident", id |-> update.id, name |-> incident.name,
     status |-> update.status, body |-> update.body, impact |-> incident.impact]

----------------------------------------------------------------------------
(* _detect_component_changes *)

state_key(component) == "component_" \o component.id

current_state(component) == component.name \o ":" \o component.status

\* a comparison that reports a change on every observation
StateDiffers_Always(stored, current) == TRUE

\* the test of the elif: the stored text differs from the current text
StateDiffers(stored, current) == stored # current

\* one pass of the loop body; st = [last_known_state, out]
ComponentStep(st, component) ==
    LET key == state_key(component)
        cur == current_state(component)
    IN  IF key \notin DOMAIN st.last_known_state
        THEN [last_known_state |-> DictSet(st.last_known_state, key, cur),
              out |-> Append(st.out, log_component_event(component, "Initial Status"))]
        ELSE IF StateDiffers(st.last_known_state[key], cur)
        THEN LET old_state == st.last_known_state[key]
             IN  [last_known_state |-> DictSet(st.last_known_state, key, cur),
                  out |-> Append(st.out,
                      log_component_event(component, "Status changed from " \o old_state))]
        ELSE st

\* a loop that walks the components from the last one to the first
RECURSIVE ComponentLoop_Backwards(_, _)
ComponentLoop_Backwards(st, components) ==
    IF components = <<>> THEN st
    ELSE ComponentLoop_Backwards(ComponentStep(st, components[Len(components)]),
                                 SubSeq(components, 1, Len(components) - 1))

\* for component in current_components: the loop of lines 124-134
RECURSIVE ComponentLoop(_, _)
ComponentLoop(st, components) ==
    IF components = <<>> THEN st
    ELSE ComponentLoop(ComponentStep(st, Head(components)), Tail(components))

detect_component_changes(lks, components) ==
    ComponentLoop([last_known_state |-> lks, out |-> <<>>], components)

----------------------------------------------------------------------------
(* _detect_incident_updates *)

\* a membership test that takes every update for a new one
IsNewUpdate_Always(seen, id) == TRUE

\* the test of the if: the update id has not been processed
IsNewUpdate(seen, id) == id \notin seen

\* an insertion that forgets the id
MarkProcessed_Skip(seen, id) == seen

\* an insertion that replaces the set by the new id
MarkProcessed_Only(seen, id) == {id}

\* processed_incident_updates.add(update.id)
MarkProcessed(seen, id) == seen \cup {id}

\* one pass of the inner loop body; st = [seen, out, raised]
UpdateStep(st, incident, update) ==
    IF st.raised \/ ~IsNewUpdate(st.seen, update.id) THEN st
    ELSE IF log_incident_raises(incident)
    THEN [seen |-> MarkProcessed(st.seen, update.id), out |-> st.out, raised |-> TRUE]
    ELSE [seen |-> MarkProcessed(st.seen, update.id),
          out |-> Append(st.out, log_incident_event(incident, update)),
          raised |-> FALSE]

RECURSIVE UpdateLoop(_, _, _)
UpdateLoop(st, incident, updates) ==
    IF updates = <<>> THEN st
    ELSE UpdateLoop(UpdateStep(st, incident, Head(updates)), incident, Tail(updates))

RECURSIVE IncidentLoop(_, _)
IncidentLoop(st, incidents) ==
    IF incidents = <<>> THEN st
    ELSE IncidentLoop(UpdateLoop(st, Head(incidents), Head(incidents).updates),
                      Tail(incidents))

detect_incident_updates(seen, incidents) ==
    IncidentLoop([seen |-> seen, out |-> <<>>, raised |-> FALSE], incidents)

----------------------------------------------------------------------------
(* History of the printed events *)

RECURSIVE CountEvents(_, _)
CountEvents(events, id) ==
    IF events = <<>> THEN 0
    ELSE (IF Head(events).kind = "incident" /\ Head(events).id = id THEN 1 ELSE 0)
         + CountEvents(Tail(events), id)

RECURSIVE Announce(_, _)
Announce(ann, events) ==
    IF events = <<>> THEN ann
    ELSE Announce(
             IF Head(events).kind = "component"
             THEN DictSet(ann, Head(events).id, <<Head(events).name, Head(events).status>>)
             ELSE ann,
             Tail(events))

----------------------------------------------------------------------------
(* openai_status_monitor.py: the detect and log methods of its             *)
(* OpenAIStatusMonitor.  The detectors are the ones of monitor.py; the log *)
(* methods look up an emoji for the status and the impact before they      *)
(* print.                                                                  *)

\* str.lower() on the texts of the payloads that have capital letters
lower(text) ==
    DictGet([Operational |-> "operational", Investigating |-> "investigating"],
            text, text)

\* _get_status_emoji: status_emojis.get(status.lower(), clipboard)
status_emojis ==
    [operational |-> "check", degraded_performance |-> "warning",
     partial_outage |-> "yellow", major_outage |-> "red",
     under_maintenance |-> "wrench", investigating |-> "magnifier",
     identified |-> "pin", monitoring |-> "eye", resolved |-> "check"]

get_status_emoji(status) == DictGet(status_emojis, lower(status), "clipboard")

\* _get_impact_emoji: impact_emojis.get(impact.lower(), "")
impact_emojis == [none |-> "", minor |-> "yellow", major |-> "red", critical |-> "siren"]

get_impact_emoji(impact) == DictGet(impact_emojis, lower(impact), "")

\* status.lower() on a status that is null raises AttributeError
twin_log_component_raises(component) == component.status = None

\* _log_component_event: the printed line, with the emoji
twin_log_component_event(component, event_type) ==
    [kind |-> "component", id |-> component.id, name |-> component.name,
     status |-> component.status, event_type |-> event_type,
     status_emoji |-> get_status_emoji(component.status)]

\* status.lower(), impact.lower() and incident_name.lower(), in this order
twin_log_incident_raises(incident, update) ==
    update.status = None \/ incident.impact = None \/ incident.name = None

\* _log_incident_event: the printed lines, with the two emoji
twin_log_incident_event(incident, update) ==
    [kind |-> "incident", id |-> update.id, name |-> incident.name,
     status |-> update.status, body |-> update.body, impact |-> incident.impact,
     status_emoji |-> get_status_emoji(update.status),
     impact_emoji |-> get_impact_emoji(incident.impact)]

\* one pass of the loop body of _detect_component_changes; the state is
\* stored before the log method is called; st = [last_known_state, out, raised]
twin_ComponentStep(st, component) ==
    LET key == state_key(component)
        now == current_state(component)
        stored == [st EXCEPT !.last_known_state = DictSet(st.last_known_state, key, now)]
        logged(event_type) ==
            IF twin_log_component_raises(component)
            THEN [stored EXCEPT !.raised = TRUE]
            ELSE [stored EXCEPT !.out = Append(st.out,
                                     twin_log_component_event(component, event_type))]
    IN  IF st.raised THEN st
        ELSE IF key \notin DOMAIN st.last_known_state
        THEN logged("Initial Status")
        ELSE IF StateDiffers(st.last_known_state[key], now)
        THEN logged("Status changed from " \o st.last_known_state[key])
        ELSE st

RECURSIVE twin_ComponentLoop(_, _)
twin_ComponentLoop(st, components) ==
    IF components = <<>> THEN st
    ELSE twin_ComponentLoop(twin_ComponentStep(st, Head(components)), Tail(components))

twin_detect_component_changes(lks, components) ==
    twin_ComponentLoop([last_known_state |-> lks, out |-> <<>>, raised |-> FALSE],
                       components)

\* one pass of the inner loop body of _detect_incident_updates
twin_UpdateStep(st, incident, update) ==
    IF st.raised \/ ~IsNewUpdate(st.seen, update.id) THEN st
    ELSE IF twin_log_incident_raises(incident, update)
    THEN [seen |-> MarkProcessed(st.seen, update.id), out |-> st.out, raised |-> TRUE]
    ELSE [seen |-> MarkProcessed(st.seen, update.id),
          out |-> Append(st.out, twin_log_incident_event(incident, update)),
          raised |-> FALSE]

RECURSIVE twin_UpdateLoop(_, _, _)
twin_UpdateLoop(st, incident, updates) ==
    IF updates = <<>> THEN st
    ELSE twin_UpdateLoop(twin_UpdateStep(st, incident, Head(updates)), incident,
                         Tail(updates))

RECURSIVE twin_IncidentLoop(_, _)
twin_IncidentLoop(st, incidents) ==
    IF incidents = <<>> THEN st
    ELSE twin_IncidentLoop(twin_UpdateLoop(st, Head(incidents), Head(incidents).updates),
                           Tail(incidents))

twin_detect_incident_updates(seen, incidents) ==
    twin_IncidentLoop([seen |-> seen, out |-> <<>>, raised |-> FALSE], incidents)

\* the monitor of openai_status_monitor.py after __init__
NoTwin ==
    [last_known_state |-> EmptyDict, processed_incident_updates |-> {},
     out |-> <<>>, announced |-> EmptyDict, stopped |-> FALSE]

----------------------------------------------------------------------------
(* The monitor: __init__, _fetch_with_etag, check_status_updates,          *)
(* start_monitoring.  The task is suspended while it awaits session.get    *)
(* ("get"), response.json ("json") and asyncio.sleep ("sleep"); an action  *)
(* runs the code from one suspension to the next.                          *)

\* the calls of check_status_updates that share one monitor
Tasks == {1, 2}

\* a call that has not begun; seen and ids are history: the set
\* processed_incident_updates when the incidents request was built, and the
\* update ids of the payload that the call handed to the detector
NoTask ==
    [pc |-> "start", endpoint |-> SUMMARY_ENDPOINT, response |-> NoResponse,
     seen |-> {}, ids |-> {}]

\* no call of _extract_products_from_incident yet
NoExtract == [incident_name |-> <<>>, result |-> <<>>, called |-> FALSE]

NoError == [exc |-> "none", where |-> "none"]

Pending == [ep \in Endpoints |-> "Pending"]

NoCall ==
    [op |-> "none", arg |-> <<>>, lks |-> EmptyDict, ann |-> EmptyDict, seen |-> {},
     replay |-> FALSE]

Init ==
    /\ etags = EmptyDict
    /\ last_known_state = EmptyDict
    /\ processed_incident_updates = {}
    /\ pc = "start"
    /\ endpoint = SUMMARY_ENDPOINT
    /\ headers = EmptyDict
    /\ response = NoResponse
    /\ out = <<>>
    /\ error = NoError
    /\ outcome = Pending
    /\ fetch_etags = EmptyDict
    /\ last200 = EmptyDict
    /\ emitted = [id \in UpdateIds |-> 0]
    /\ announced = EmptyDict
    /\ call = NoCall
    /\ twin = NoTwin
    /\ tasks = [t \in Tasks |-> NoTask]
    /\ extract = NoExtract

\* lines 52-55: the conditional header is the stored validator, if there is one
BuildHeaders(ep) ==
    IF ep \in DOMAIN etags THEN DictSet(EmptyDict, "If-None-Match", etags[ep])
    ELSE EmptyDict

\* lines 63-65: a 200 response stores its ETag, quotes stripped, when it has one
StoreETag(tags, ep, resp) ==
    LET etag == DictGet(resp.headers, "ETag", <<>>)
    IN  IF etag # <<>> THEN DictSet(tags, ep, strip(etag, Q)) ELSE tags

\* _fetch_with_etag up to its first await: the request leaves, the server answers
Request(ep) ==
    /\ endpoint' = ep
    /\ headers' = BuildHeaders(ep)
    /\ fetch_etags' = etags
    /\ response' \in Responses(ep)
    /\ pc' = "get"
    /\ error' = error

\* check_status_updates after the fetch of ep is dealt with: the next fetch, or
\* the return to start_monitoring and its sleep
Proceed(ep) ==
    IF ep = SUMMARY_ENDPOINT THEN Request(INCIDENTS_ENDPOINT)
    ELSE /\ pc' = "sleep"
         /\ response' = NoResponse
         /\ headers' = EmptyDict
         /\ UNCHANGED <<endpoint, fetch_etags, error>>

\* an exception leaves check_status_updates; start_monitoring's except Exception
\* prints it and returns
Raise(exc, where) ==
    /\ pc' = "error"
    /\ error' = [exc |-> exc, where |-> where]
    /\ response' = NoResponse
    /\ headers' = EmptyDict
    /\ UNCHANGED <<endpoint, fetch_etags>>

Ended(ep, how) == outcome' = [outcome EXCEPT ![ep] = how]

\* start_monitoring enters its loop and the first cycle begins
StartMonitoring ==
    /\ pc = "start"
    /\ out' = <<>>
    /\ outcome' = Pending
    /\ Request(SUMMARY_ENDPOINT)
    /\ UNCHANGED <<etags, last_known_state, processed_incident_updates, last200,
                   emitted, announced, call, twin,
                   tasks, extract>>

\* asyncio.sleep returns and the next cycle begins
SleepDone ==
    /\ pc = "sleep"
    /\ out' = <<>>
    /\ outcome' = Pending
    /\ Request(SUMMARY_ENDPOINT)
    /\ UNCHANGED <<etags, last_known_state, processed_incident_updates, last200,
                   emitted, announced, call, twin,
                   tasks, extract>>

\* session.get fails with an aiohttp.ClientError: logged, the fetch returns None
GetClientError ==
    /\ pc = "get" /\ response.kind = "ClientError"
    /\ Ended(endpoint, "NetworkError")
    /\ Proceed(endpoint)
    /\ UNCHANGED <<etags, last200, call, twin,
                   tasks, extract>>
    /\ UNCHANGED memory

\* the session's total timeout expires: asyncio.TimeoutError is no ClientError,
\* no except clause of the fetch takes it
GetTimeout ==
    /\ pc = "get" /\ response.kind = "TimeoutError"
    /\ Ended(endpoint, "Timeout")
    /\ Raise("TimeoutError", "_fetch_with_etag")
    /\ UNCHANGED <<etags, last200, call, twin,
                   tasks, extract>>
    /\ UNCHANGED memory

\* status 304: the fetch returns None
GetNotModified ==
    /\ pc = "get" /\ response.kind = "response" /\ response.status = 304
    /\ Ended(endpoint, "Unchanged")
    /\ Proceed(endpoint)
    /\ UNCHANGED <<etags, last200, call, twin,
                   tasks, extract>>
    /\ UNCHANGED memory

\* a status other than 304 and 200: a warning, the fetch returns None
GetOtherStatus ==
    /\ pc = "get" /\ response.kind = "response" /\ response.status \notin {200, 304}
    /\ Ended(endpoint, "HttpError")
    /\ Proceed(endpoint)
    /\ UNCHANGED <<etags, last200, call, twin,
                   tasks, extract>>
    /\ UNCHANGED memory

\* status 200: the ETag is stored, then the fetch awaits response.json()
GetOk ==
    /\ pc = "get" /\ response.kind = "response" /\ response.status = 200
    /\ etags' = StoreETag(etags, endpoint, response)
    /\ last200' = DictSet(last200, endpoint, DictGet(response.headers, "ETag", <<>>))
    /\ pc' = "json"
    /\ UNCHANGED <<endpoint, headers, response, error, outcome, fetch_etags, call, twin,
                   tasks, extract>>
    /\ UNCHANGED memory

\* a handler of the decode error that also drops the component states
JsonDecodeError_Forgets ==
    /\ pc = "json" /\ ~response.valid_json
    /\ Ended(endpoint, "DecodeError")
    /\ Proceed(endpoint)
    /\ last_known_state' = EmptyDict
    /\ UNCHANGED <<etags, last200, call, twin,
                   tasks, extract>>
    /\ UNCHANGED <<processed_incident_updates, out, emitted, announced>>

\* response.json() raises json.JSONDecodeError: logged, the fetch returns None
JsonDecodeError ==
    /\ pc = "json" /\ ~response.valid_json
    /\ Ended(endpoint, "DecodeError")
    /\ Proceed(endpoint)
    /\ UNCHANGED <<etags, last200, call, twin,
                   tasks, extract>>
    /\ UNCHANGED memory

\* the summary payload is returned: lines 193-195, then the incidents fetch
SummaryFresh ==
    /\ pc = "json" /\ response.valid_json /\ endpoint = SUMMARY_ENDPOINT
    /\ LET summary_data == response.json
           components == parse_components(summary_data)
           got == detect_component_changes(last_known_state, components.value)
       IN  IF DOMAIN summary_data = {}
           THEN /\ Ended(endpoint, "Fresh")
                /\ Proceed(endpoint)
                /\ UNCHANGED memory
           ELSE IF components.raised
           THEN /\ Ended(endpoint, "MalformedPayload")
                /\ Raise("KeyError", "_parse_components")
                /\ UNCHANGED memory
           ELSE /\ Ended(endpoint, "Fresh")
                /\ last_known_state' = got.last_known_state
                /\ out' = out \o got.out
                /\ announced' = Announce(announced, got.out)
                /\ Proceed(endpoint)
                /\ UNCHANGED <<processed_incident_updates, emitted>>
    /\ UNCHANGED <<etags, last200, call, twin,
                   tasks, extract>>

\* the incidents payload is returned: lines 198-200, then the sleep
IncidentsFresh ==
    /\ pc = "json" /\ response.valid_json /\ endpoint = INCIDENTS_ENDPOINT
    /\ LET incidents_data == response.json
           incidents == parse_incidents(incidents_data)
           got == detect_incident_updates(processed_incident_updates, incidents.value)
       IN  IF DOMAIN incidents_data = {}
           THEN /\ Ended(endpoint, "Fresh")
                /\ Proceed(endpoint)
                /\ UNCHANGED memory
           ELSE IF incidents.raised
           THEN /\ Ended(endpoint, "MalformedPayload")
                /\ Raise("KeyError", "_parse_incidents")
                /\ UNCHANGED memory
           ELSE /\ processed_incident_updates' = got.seen
                /\ out' = out \o got.out
                /\ emitted' = [id \in UpdateIds |-> emitted[id] + CountEvents(got.out, id)]
                /\ UNCHANGED <<last_known_state, announced>>
                /\ IF got.raised
                   THEN /\ Ended(endpoint, "EmitError")
                        /\ Raise("AttributeError", "_log_incident_event")
                   ELSE /\ Ended(endpoint, "Fresh")
                        /\ Proceed(endpoint)
    /\ UNCHANGED <<etags, last200, call, twin,
                   tasks, extract>>

\* the task is cancelled (Ctrl-C under asyncio.run) where it is suspended
Cancel ==
    /\ pc \in {"get", "json", "sleep"}
    /\ pc' = "cancelled"
    /\ response' = NoResponse
    /\ headers' = EmptyDict
    /\ UNCHANGED <<etags, last_known_state, processed_incident_updates, endpoint, out,
                   error, outcome, fetch_etags, last200, emitted, announced, call, twin,
                   tasks, extract>>

Next ==
    \/ StartMonitoring
    \/ SleepDone
    \/ GetClientError
    \/ GetTimeout
    \/ GetNotModified
    \/ GetOtherStatus
    \/ GetOk
    \/ JsonDecodeError
    \/ SummaryFresh
    \/ IncidentsFresh
    \/ Cancel

Spec == Init /\ [][Next]_vars

\* what the event loop does on its own: it resumes the task when the awaited
\* response, body or sleep is there.  A cancellation comes from outside.
Resume ==
    \/ StartMonitoring
    \/ SleepDone
    \/ GetClientError
    \/ GetTimeout
    \/ GetNotModified
    \/ GetOtherStatus
    \/ GetOk
    \/ JsonDecodeError
    \/ SummaryFresh
    \/ IncidentsFresh

FairSpec == Spec /\ WF_vars(Resume)

----------------------------------------------------------------------------
(* The detectors called directly, on parsed records, as a unit test calls   *)
(* them on a fresh monitor.  call keeps the argument and the memory before  *)
(* the call; out holds the events the call printed.                         *)

SeqsUpTo(S, n) == UNION { [1..k -> S] : k \in 0..n }

Names == {"API", "API:v2"}
Statuses == {"operational", "v2:operational"}

TypedComponents ==
    { ComponentStatus(CompData("c1", n, s)) : n \in Names, s \in Statuses }
      \cup { ComponentStatus(CompData("c2", "Sora", s)) : s \in Statuses }

ComponentLists == SeqsUpTo(TypedComponents, MaxComponents)

TypedUpdates(incident_id) ==
    { IncidentUpdate(UpdateData(id, incident_id)) : id \in {"u1", "u2", "u3"} }

TypedIncident(id, name, updates) ==
    [Incident(IncidentData(id, name, <<>>)) EXCEPT !.updates = updates]

\* no incident; one incident with up to MaxUpdates updates; the same followed by
\* a second incident with one update
IncidentLists ==
    LET Firsts == { TypedIncident("i1", "API errors", us) :
                      us \in SeqsUpTo(TypedUpdates("i1"), MaxUpdates) }
        Seconds == { TypedIncident("i2", "Sora errors", << u >>) : u \in TypedUpdates("i2") }
    IN  {<<>>} \cup { << a >> : a \in Firsts } \cup { << a, b >> : a \in Firsts, b \in Seconds }

ObserveComponents ==
    \E components \in ComponentLists :
        LET got == detect_component_changes(last_known_state, components)
        IN  /\ last_known_state' = got.last_known_state
            /\ out' = got.out
            /\ announced' = Announce(announced, got.out)
            /\ call' = [op |-> "components", arg |-> components, lks |-> last_known_state,
                        ann |-> announced, seen |-> processed_incident_updates,
                        replay |-> (call.op = "components" /\ call.arg = components)]
            /\ UNCHANGED <<etags, processed_incident_updates, pc, endpoint, headers,
                           response, error, outcome, fetch_etags, last200, emitted,
                           twin,
                   tasks, extract>>

ObserveIncidents ==
    \E incidents \in IncidentLists :
        LET got == detect_incident_updates(processed_incident_updates, incidents)
        IN  /\ processed_incident_updates' = got.seen
            /\ out' = got.out
            /\ emitted' = [id \in UpdateIds |-> emitted[id] + CountEvents(got.out, id)]
            /\ call' = [op |-> "incidents", arg |-> incidents, lks |-> last_known_state,
                        ann |-> announced, seen |-> processed_incident_updates,
                        replay |-> (call.op = "incidents" /\ call.arg = incidents)]
            /\ UNCHANGED <<etags, last_known_state, pc, endpoint, headers, response,
                           error, outcome, fetch_etags, last200, announced, twin,
                   tasks, extract>>

ComponentSpec == Init /\ [][ObserveComponents]_vars

IncidentSpec == Init /\ [][ObserveIncidents]_vars

----------------------------------------------------------------------------
(* The two monitors side by side: each payload that a fetch returns is     *)
(* handed to the half of check_status_updates of both.  An exception that  *)
(* leaves check_status_updates ends the loop of that monitor.              *)

TwinSummaryDocs ==
    { SummaryDocs[v] : v \in DOMAIN SummaryDocs }
    \cup { [components |-> <<CompData("c1", "API", "Operational")>>],
           [components |-> <<CompData("c1", "API", None),
                             CompData("c2", "Sora", "operational")>>] }

TwinIncidentDocs ==
    { IncidentDocs[v] : v \in DOMAIN IncidentDocs }
    \cup { [incidents |-> <<[IncidentData("i2", "Sora errors",
                                 <<UpdateData("u2", "i2")>>) EXCEPT !.impact = None]>>] }

\* what is left of an event of openai_status_monitor.py without its emoji
Undecorated(event) ==
    [field \in DOMAIN event \ {"status_emoji", "impact_emoji"} |-> event[field]]

UndecoratedAll(events) == [k \in 1..Len(events) |-> Undecorated(events[k])]

TwinStop == twin' = [twin EXCEPT !.out = <<>>, !.stopped = TRUE]

\* summary_data is returned to both monitors: lines 193-195 / 279-281
TwinSummary ==
    /\ error = NoError
    /\ \E summary_data \in TwinSummaryDocs :
          LET components == parse_components(summary_data)
              got == detect_component_changes(last_known_state, components.value)
              twin_got == twin_detect_component_changes(twin.last_known_state,
                                                        components.value)
          IN  IF components.raised
              THEN /\ error' = [exc |-> "KeyError", where |-> "_parse_components"]
                   /\ out' = <<>>
                   /\ TwinStop
                   /\ UNCHANGED <<last_known_state, announced>>
              ELSE /\ last_known_state' = got.last_known_state
                   /\ out' = got.out
                   /\ announced' = Announce(announced, got.out)
                   /\ error' = error
                   /\ twin' = IF twin.stopped THEN [twin EXCEPT !.out = <<>>]
                              ELSE [twin EXCEPT
                                      !.last_known_state = twin_got.last_known_state,
                                      !.out = twin_got.out,
                                      !.announced = Announce(twin.announced, twin_got.out),
                                      !.stopped = twin_got.raised]
    /\ UNCHANGED <<etags, processed_incident_updates, pc, endpoint, headers, response,
                   outcome, fetch_etags, last200, emitted, call, tasks, extract>>

\* incidents_data is returned to both monitors: lines 198-200 / 284-287
TwinIncidents ==
    /\ error = NoError
    /\ \E incidents_data \in TwinIncidentDocs :
          LET incidents == parse_incidents(incidents_data)
              got == detect_incident_updates(processed_incident_updates, incidents.value)
              twin_got == twin_detect_incident_updates(twin.processed_incident_updates,
                                                       incidents.value)
          IN  IF incidents.raised
              THEN /\ error' = [exc |-> "KeyError", where |-> "_parse_incidents"]
                   /\ out' = <<>>
                   /\ TwinStop
                   /\ UNCHANGED <<processed_incident_updates, emitted>>
              ELSE /\ processed_incident_updates' = got.seen
                   /\ out' = got.out
                   /\ emitted' = [id \in UpdateIds |->
                                     emitted[id] + CountEvents(got.out, id)]
                   /\ error' = IF got.raised
                               THEN [exc |-> "AttributeError",
                                     where |-> "_log_incident_event"]
                               ELSE error
                   /\ twin' = IF twin.stopped THEN [twin EXCEPT !.out = <<>>]
                              ELSE [twin EXCEPT
                                      !.processed_incident_updates = twin_got.seen,
                                      !.out = twin_got.out,
                                      !.stopped = twin_got.raised]
    /\ UNCHANGED <<etags, last_known_state, pc, endpoint, headers, response,
                   outcome, fetch_etags, last200, announced, call, tasks, extract>>

TwinNext == TwinSummary \/ TwinIncidents

TwinSpec == Init /\ [][TwinNext]_vars

----------------------------------------------------------------------------
(* Two calls of check_status_updates on one monitor and one event loop.    *)
(* A call is suspended where it awaits session.get ("get") and             *)
(* response.json ("json"); between two suspensions its code runs alone.    *)
(* The calls share etags, last_known_state and processed_incident_updates; *)
(* out holds the events of both, in the order they were printed.  The      *)
(* server answers a request whatever its headers are, so the headers of    *)
(* the calls are left out.                                                 *)

RECURSIVE Flatten(_)
\* the (incident, update) pairs of a feed, in feed order
Flatten(incidents) ==
    IF incidents = <<>> THEN <<>>
    ELSE LET incident == Head(incidents)
         IN  [k \in 1..Len(incident.updates) |->
                 [incident |-> incident, update |-> incident.updates[k]]]
             \o Flatten(Tail(incidents))

FeedIds(incidents) ==
    LET flat == Flatten(incidents) IN { flat[k].update.id : k \in 1..Len(flat) }

\* a membership test on the set as it was when the request was built
TestedSet_Stale(t) == tasks[t].seen

\* the set that `update.id not in self.processed_incident_updates` reads
TestedSet(t) == processed_incident_updates

\* the call is suspended in session.get(url) for the endpoint
TaskAwait(t, ep) ==
    \E r \in Responses(ep) :
        tasks' = [tasks EXCEPT ![t] =
                    [pc |-> "get", endpoint |-> ep, response |-> r,
                     seen |-> IF ep = INCIDENTS_ENDPOINT
                              THEN processed_incident_updates ELSE tasks[t].seen,
                     ids |-> tasks[t].ids]]

\* the call returns ("done") or an exception leaves it ("error")
TaskEnd(t, how, ids) ==
    tasks' = [tasks EXCEPT ![t] =
                [pc |-> how, endpoint |-> tasks[t].endpoint, response |-> NoResponse,
                 seen |-> tasks[t].seen, ids |-> ids]]

\* after the summary half comes the incidents fetch, after the incidents half the end
TaskProceed(t) ==
    IF tasks[t].endpoint = SUMMARY_ENDPOINT
    THEN TaskAwait(t, INCIDENTS_ENDPOINT)
    ELSE TaskEnd(t, "done", tasks[t].ids)

TaskCall(t) ==
    /\ tasks[t].pc = "start"
    /\ TaskAwait(t, SUMMARY_ENDPOINT)
    /\ UNCHANGED <<etags, last_known_state, processed_incident_updates, pc, endpoint,
                   headers, response, out, error, outcome, fetch_etags, last200,
                   emitted, announced, call, twin, extract>>

\* ClientError, 304 or another status: the fetch returns None
TaskGetNone(t) ==
    /\ tasks[t].pc = "get"
    /\ \/ tasks[t].response.kind = "ClientError"
       \/ tasks[t].response.kind = "response" /\ tasks[t].response.status # 200
    /\ TaskProceed(t)
    /\ UNCHANGED <<etags, last_known_state, processed_incident_updates, pc, endpoint,
                   headers, response, out, error, outcome, fetch_etags, last200,
                   emitted, announced, call, twin, extract>>

\* asyncio.TimeoutError passes the except clauses of the fetch and the call
TaskGetTimeout(t) ==
    /\ tasks[t].pc = "get" /\ tasks[t].response.kind = "TimeoutError"
    /\ TaskEnd(t, "error", tasks[t].ids)
    /\ UNCHANGED <<etags, last_known_state, processed_incident_updates, pc, endpoint,
                   headers, response, out, error, outcome, fetch_etags, last200,
                   emitted, announced, call, twin, extract>>

\* status 200: the ETag is stored, then the fetch awaits response.json()
TaskGetOk(t) ==
    /\ tasks[t].pc = "get"
    /\ tasks[t].response.kind = "response" /\ tasks[t].response.status = 200
    /\ etags' = StoreETag(etags, tasks[t].endpoint, tasks[t].response)
    /\ tasks' = [tasks EXCEPT ![t].pc = "json"]
    /\ UNCHANGED <<last_known_state, processed_incident_updates, pc, endpoint,
                   headers, response, out, error, outcome, fetch_etags, last200,
                   emitted, announced, call, twin, extract>>

\* json.JSONDecodeError: the fetch returns None
TaskJsonNone(t) ==
    /\ tasks[t].pc = "json" /\ ~tasks[t].response.valid_json
    /\ TaskProceed(t)
    /\ UNCHANGED <<etags, last_known_state, processed_incident_updates, pc, endpoint,
                   headers, response, out, error, outcome, fetch_etags, last200,
                   emitted, announced, call, twin, extract>>

\* lines 193-195 of the call, up to its next suspension
TaskSummary(t) ==
    /\ tasks[t].pc = "json" /\ tasks[t].response.valid_json
    /\ tasks[t].endpoint = SUMMARY_ENDPOINT
    /\ LET summary_data == tasks[t].response.json
           components == parse_components(summary_data)
           got == detect_component_changes(last_known_state, components.value)
       IN  IF DOMAIN summary_data = {}
           THEN /\ TaskProceed(t)
                /\ UNCHANGED <<last_known_state, out, announced>>
           ELSE IF components.raised
           THEN /\ TaskEnd(t, "error", tasks[t].ids)
                /\ UNCHANGED <<last_known_state, out, announced>>
           ELSE /\ last_known_state' = got.last_known_state
                /\ out' = out \o got.out
                /\ announced' = Announce(announced, got.out)
                /\ TaskProceed(t)
    /\ UNCHANGED <<etags, processed_incident_updates, pc, endpoint, headers, response,
                   error, outcome, fetch_etags, last200, emitted, call, twin, extract>>

\* lines 198-200 of the call, up to its end
TaskIncidents(t) ==
    /\ tasks[t].pc = "json" /\ tasks[t].response.valid_json
    /\ tasks[t].endpoint = INCIDENTS_ENDPOINT
    /\ LET incidents_data == tasks[t].response.json
           incidents == parse_incidents(incidents_data)
           got == detect_incident_updates(TestedSet(t), incidents.value)
       IN  IF DOMAIN incidents_data = {}
           THEN /\ TaskProceed(t)
                /\ UNCHANGED <<processed_incident_updates, out, emitted>>
           ELSE IF incidents.raised
           THEN /\ TaskEnd(t, "error", tasks[t].ids)
                /\ UNCHANGED <<processed_incident_updates, out, emitted>>
           ELSE /\ processed_incident_updates' = processed_incident_updates \cup got.seen
                /\ out' = out \o got.out
                /\ emitted' = [id \in UpdateIds |->
                                  emitted[id] + CountEvents(got.out, id)]
                /\ TaskEnd(t, IF got.raised THEN "error" ELSE "done",
                           FeedIds(incidents.value))
    /\ UNCHANGED <<etags, last_known_state, pc, endpoint, headers, response, error,
                   outcome, fetch_etags, last200, announced, call, twin, extract>>

OverlapNext ==
    \E t \in Tasks :
        \/ TaskCall(t)
        \/ TaskGetNone(t)
        \/ TaskGetTimeout(t)
        \/ TaskGetOk(t)
        \/ TaskJsonNone(t)
        \/ TaskSummary(t)
        \/ TaskIncidents(t)

OverlapSpec == Init /\ [][OverlapNext]_vars

----------------------------------------------------------------------------
(* _extract_products_from_incident.  A str is the sequence of its          *)
(* characters.                                                             *)

\* longest incident name handed to _extract_products_from_incident, in fragments
MaxFragments == 3

UpperCase ==
    <<"A", "B", "C", "D", "E", "F", "G", "H", "I", "J", "K", "L", "M",
       "N", "O", "P", "Q", "R", "S", "T", "U", "V", "W", "X", "Y", "Z">>
LowerCase ==
    <<"a", "b", "c", "d", "e", "f", "g", "h", "i", "j", "k", "l", "m",
       "n", "o", "p", "q", "r", "s", "t", "u", "v", "w", "x", "y", "z">>

\* a lower() that keeps the case
lower_char_Same(c) == c

\* str.lower() on one character
lower_char(c) ==
    IF \E i \in DOMAIN UpperCase : UpperCase[i] = c
    THEN LowerCase[CHOOSE i \in DOMAIN UpperCase : UpperCase[i] = c]
    ELSE c

\* str.lower()
str_lower(text) == [k \in 1..Len(text) |-> lower_char(text[k])]

\* the list of lines 161-180
products ==
    << <<"C", "h", "a", "t", " ", "C", "o", "m", "p", "l", "e", "t", "i", "o", "n", "s">>,
       <<"R", "e", "s", "p", "o", "n", "s", "e", "s">>,
       <<"B", "a", "t", "c", "h">>,
       <<"F", "i", "l", "e", "s">>,
       <<"F", "i", "n", "e", "-", "t", "u", "n", "i", "n", "g">>,
       <<"E", "m", "b", "e", "d", "d", "i", "n", "g", "s">>,
       <<"A", "u", "d", "i", "o">>,
       <<"I", "m", "a", "g", "e", "s">>,
       <<"R", "e", "a", "l", "t", "i", "m", "e">>,
       <<"C", "h", "a", "t", "G", "P", "T">>,
       <<"S", "o", "r", "a">>,
       <<"V", "e", "c", "t", "o", "r", " ", "s", "t", "o", "r", "e", "s">>,
       <<"M", "o", "d", "e", "r", "a", "t", "i", "o", "n">>,
       <<"A", "s", "s", "i", "s", "t", "a", "n", "t", "s">>,
       <<"C", "o", "d", "e", "x">>,
       <<"L", "o", "g", "i", "n">>,
       <<"F", "i", "l", "e", " ", "u", "p", "l", "o", "a", "d", "s">>,
       <<"C", "o", "m", "p", "l", "i", "a", "n", "c", "e", " ", "A", "P", "I">> >>

\* str.startswith
startswith(text, prefix) ==
    Len(prefix) <= Len(text) /\ SubSeq(text, 1, Len(prefix)) = prefix

\* the operator `in` of two str: needle in text
RECURSIVE contains(_, _)
contains(text, needle) ==
    IF Len(needle) > Len(text) THEN FALSE
    ELSE startswith(text, needle) \/ contains(Tail(text), needle)

\* the loop of lines 185-187, from product k on
RECURSIVE found_products(_, _)
found_products(incident_lower, k) ==
    IF k > Len(products) THEN <<>>
    ELSE (IF contains(incident_lower, str_lower(products[k]))
          THEN << products[k] >> ELSE <<>>)
         \o found_products(incident_lower, k + 1)

\* str.join
RECURSIVE join(_, _)
join(sep, items) ==
    IF items = <<>> THEN <<>>
    ELSE IF Len(items) = 1 THEN items[1]
    ELSE items[1] \o sep \o join(sep, Tail(items))

\* "OpenAI Services"
GenericLabel == <<"O", "p", "e", "n", "A", "I", " ", "S", "e", "r", "v", "i", "c", "e", "s">>

extract_products_from_incident(incident_name) ==
    LET found == found_products(str_lower(incident_name), 1)
    IN  IF found # <<>> THEN join(<<",", " ">>, found) ELSE GenericLabel

\* pieces of incident names
Fragments ==
    { <<"S", "O", "R", "A">>,
      <<"C", "h", "a", "t">>,
      <<"g", "p", "t">>,
      <<"f", "i", "l", "e">>,
      <<"s">>,
      <<" ">>,
      <<" ", "u", "p", "l", "o", "a", "d", "s">>,
      <<"l", "o", "g", "i", "n">> }

RECURSIVE Concat(_)
Concat(pieces) == IF pieces = <<>> THEN <<>> ELSE Head(pieces) \o Concat(Tail(pieces))

IncidentNames == { Concat(pieces) : pieces \in SeqsUpTo(Fragments, MaxFragments) }

\* one call of the method on an incident name
ExtractProducts ==
    /\ ~extract.called
    /\ \E incident_name \in IncidentNames :
          extract' = [incident_name |-> incident_name,
                      result |-> extract_products_from_incident(incident_name),
                      called |-> TRUE]
    /\ UNCHANGED <<etags, last_known_state, processed_incident_updates, pc, endpoint,
                   headers, response, out, error, outcome, fetch_etags, last200,
                   emitted, announced, call, twin, tasks>>

ExtractSpec == Init /\ [][ExtractProducts]_vars

----------------------------------------------------------------------------
(* Claims about the detectors *)

IncidentEvents(events) == SelectSeq(events, LAMBDA e : e.kind = "incident")

\* C1: over the lifetime of a monitor, whatever the fetches return and however
\* often an update id is delivered again, at most one incident event is printed
\* for each update id.
C1_AtMostOneEventPerUpdate == \A id \in UpdateIds : emitted[id] <= 1

\* a cycle whose incidents feed was processed, delivered u1 and u2 again (u2
\* under two incidents) and printed nothing for them
C1_Redelivered ==
    /\ pc = "sleep"
    /\ outcome[INCIDENTS_ENDPOINT] = "Fresh"
    /\ IncidentEvents(out) = <<>>
    /\ processed_incident_updates = {"u1", "u2"}
    /\ emitted["u1"] = 1 /\ emitted["u2"] = 1

\* the signature of the specification: the pair (name, status)
Signature(component) == << component.name, component.status >>

SignatureText(sig) == sig[1] \o ":" \o sig[2]

\* the rule of the specification on a memory of pairs; st = [mem, events]
RuleStep(st, component) ==
    IF component.id \notin DOMAIN st.mem
    THEN [mem |-> DictSet(st.mem, component.id, Signature(component)),
          events |-> Append(st.events,
              [component |-> component, kind |-> "Initial", previous |-> <<>>])]
    ELSE IF st.mem[component.id] # Signature(component)
    THEN [mem |-> DictSet(st.mem, component.id, Signature(component)),
          events |-> Append(st.events,
              [component |-> component, kind |-> "Changed",
               previous |-> st.mem[component.id]])]
    ELSE st

RECURSIVE Rule(_, _)
Rule(st, components) ==
    IF components = <<>> THEN st
    ELSE Rule(RuleStep(st, Head(components)), Tail(components))

\* the printed event is the event of the rule
SameEvent(printed, ruled) ==
    /\ printed.kind = "component"
    /\ printed.id = ruled.component.id
    /\ printed.name = ruled.component.name
    /\ printed.status = ruled.component.status
    /\ printed.event_type =
           IF ruled.kind = "Initial" THEN "Initial Status"
           ELSE "Status changed from " \o SignatureText(ruled.previous)

\* C2: _detect_component_changes applies the rule to every component of its
\* input: an Initial event for an untracked id, a Changed event citing the stored
\* signature when the stored pair (name, status) differs from the current pair,
\* no event when the pairs are equal; afterwards the current pair is stored.
C2_ComponentRule ==
    call.op = "components" =>
        LET ruled == Rule([mem |-> call.ann, events |-> <<>>], call.arg)
        IN  /\ Len(out) = Len(ruled.events)
            /\ \A k \in 1..Len(ruled.events) : SameEvent(out[k], ruled.events[k])
            /\ DOMAIN last_known_state = { "component_" \o id : id \in DOMAIN ruled.mem }
            /\ \A id \in DOMAIN ruled.mem :
                   last_known_state["component_" \o id] = SignatureText(ruled.mem[id])

\* no id of the list carries two different (name, status) pairs
SameIdSameState(components) ==
    \A i, j \in 1..Len(components) :
        components[i].id = components[j].id
            => Signature(components[i]) = Signature(components[j])

\* C3 as stated: a components payload applied a second time prints no event and
\* leaves last_known_state as the first application left it, for every payload.
C3_ReplayIsSilent ==
    (call.op = "components" /\ call.replay)
        => (out = <<>> /\ last_known_state = call.lks)

\* C3, amended: the same for every payload in which no component id occurs with
\* two different (name, status) pairs.
C3_ReplayIsSilentForConsistentPayloads ==
    (call.op = "components" /\ call.replay /\ SameIdSameState(call.arg))
        => (out = <<>> /\ last_known_state = call.lks)

\* a payload of two components applied twice to a monitor that tracked some
C3_Replayed ==
    /\ call.op = "components" /\ call.replay
    /\ Len(call.arg) = 2 /\ SameIdSameState(call.arg)
    /\ call.lks # EmptyDict
    /\ out = <<>>

\* position k holds the first occurrence of an id that was not seen before
FirstNew(flat, seen, k) ==
    /\ flat[k].update.id \notin seen
    /\ \A j \in 1..(k - 1) : flat[j].update.id # flat[k].update.id

RECURSIVE NewEvents(_, _, _)
NewEvents(flat, seen, k) ==
    IF k > Len(flat) THEN <<>>
    ELSE (IF FirstNew(flat, seen, k)
          THEN << log_incident_event(flat[k].incident, flat[k].update) >>
          ELSE <<>>)
         \o NewEvents(flat, seen, k + 1)

\* C4: _detect_incident_updates prints an event for exactly the updates whose
\* id was not in the seen-set before the call, once per id, at the first
\* occurrence of the id, and leaves the seen-set united with all ids of the
\* input; a replayed feed prints nothing.
C4_IncidentRule ==
    call.op = "incidents" =>
        /\ out = NewEvents(Flatten(call.arg), call.seen, 1)
        /\ \A id \in UpdateIds :
               CountEvents(out, id) = IF id \in FeedIds(call.arg) \ call.seen THEN 1 ELSE 0
        /\ processed_incident_updates = call.seen \cup FeedIds(call.arg)
        /\ call.replay => out = <<>>

\* a feed that adds u2 to the known incident with update u1: one event, for u2
C4_OneAdded ==
    /\ call.op = "incidents"
    /\ call.seen = {"u1"}
    /\ Len(call.arg) = 1
    /\ Len(call.arg[1].updates) = 2
    /\ call.arg[1].updates[1].id = "u1" /\ call.arg[1].updates[2].id = "u2"
    /\ Len(out) = 1 /\ out[1].id = "u2"

----------------------------------------------------------------------------
(* Claims about the fetches and the loop *)

RecoverableErrors == {"NetworkError", "HttpError", "DecodeError", "MalformedPayload"}

\* the versions of a resource whose records are complete and well typed
GoodVersions(ep) == {1, 2}

\* the answer in flight is a right answer of a server that serves version v of
\* ep: a 200 with the payload and its ETag, or a 304 to a request whose
\* validator is the ETag of v
ServedRight(ep, v) ==
    (pc \in {"get", "json"} /\ endpoint = ep) =>
        /\ response.kind = "response"
        /\ \/ /\ response.status = 200
              /\ response.valid_json
              /\ response.json = Docs(ep)[v]
              /\ response.headers = DictSet(EmptyDict, "ETag", EntityTag(v))
           \/ /\ response.status = 304
              /\ headers = DictSet(EmptyDict, "If-None-Match", strip(EntityTag(v), Q))

\* every record of version v of ep has had its event
Announced(ep, v) ==
    IF ep = SUMMARY_ENDPOINT
    THEN LET components == parse_components(Docs(ep)[v]).value
         IN  \A k \in 1..Len(components) :
                 /\ components[k].id \in DOMAIN announced
                 /\ announced[components[k].id] = Signature(components[k])
    ELSE \A id \in FeedIds(parse_incidents(Docs(ep)[v]).value) : emitted[id] >= 1

Running == pc \notin {"cancelled", "error"}

\* C5: no change is missed: when from some point on the server serves one
\* content of an endpoint and answers every request for it rightly, and the
\* loop is neither cancelled nor stopped, the events of that content are
\* eventually printed.
C5_NoChangeMissed ==
    \A ep \in Endpoints : \A v \in GoodVersions(ep) :
        <>[](Running /\ ServedRight(ep, v)) => <>Announced(ep, v)

\* C6: whatever ends the summary fetch of a cycle (Unchanged, NetworkError,
\* HttpError, DecodeError, MalformedPayload), the incidents endpoint is fetched
\* in that cycle.
C6_IncidentsStillFetched ==
    outcome[SUMMARY_ENDPOINT] \in ({"Unchanged"} \cup RecoverableErrors)
        => endpoint = INCIDENTS_ENDPOINT

\* C7: _fetch_with_etag returns a value for every behaviour of the server and
\* the transport, the timeout included; no exception leaves it.
C7_FetchNeverRaises == error.where # "_fetch_with_etag"

\* C8: no recoverable error (NetworkError, HttpError, DecodeError,
\* MalformedPayload) of an endpoint stops the loop of start_monitoring.
C8_RecoverableErrorsNeverStop ==
    pc = "error" => outcome[endpoint] \notin RecoverableErrors

\* C9: a fetch that ends Unchanged or Failed (another status, a transport
\* failure, a 200 whose body does not decode) leaves etags, for both endpoints,
\* as it was when the request was built.
C9_ValidatorOnlyOnFresh ==
    [][\A ep \in Endpoints :
          (outcome[ep] = "Pending"
             /\ outcome'[ep] \in {"Unchanged", "NetworkError", "HttpError",
                                  "DecodeError", "Timeout"})
              => etags' = fetch_etags]_vars

\* C10: a request carries exactly the validator of the latest 200 response of
\* its endpoint, and no conditional header when there was no 200 response or
\* the latest one had no validator.
C10_HeaderIsLatestValidator ==
    pc = "get" =>
        headers = IF DictGet(last200, endpoint, <<>>) # <<>>
                  THEN DictSet(EmptyDict, "If-None-Match", strip(last200[endpoint], Q))
                  ELSE EmptyDict

----------------------------------------------------------------------------
(* C11: a fetch that is not Fresh leaves the memories alone *)

NotDelivered == {"Unchanged", "NetworkError", "HttpError", "DecodeError", "Timeout"}

\* C11: from the moment a response is received until its fetch ends, and in
\* the step that ends a fetch as Unchanged (304) or Failed (transport failure,
\* timeout, another status, undecodable body), no event is emitted and
\* last_known_state and processed_incident_updates keep their values.
C11_NoEffectWithoutPayload ==
    [][(pc = "get"
          \/ \E ep \in Endpoints :
                outcome[ep] = "Pending" /\ outcome'[ep] \in NotDelivered)
        => /\ last_known_state' = last_known_state
           /\ processed_incident_updates' = processed_incident_updates
           /\ out' = out]_vars

\* a cycle whose two fetches brought nothing, run on memories that are not empty
C11_NothingDelivered ==
    /\ pc = "sleep"
    /\ outcome[SUMMARY_ENDPOINT] = "DecodeError"
    /\ outcome[INCIDENTS_ENDPOINT] = "Unchanged"
    /\ out = <<>>
    /\ last_known_state # EmptyDict
    /\ processed_incident_updates # {}

----------------------------------------------------------------------------
(* C12: the order of the events of one cycle *)

RECURSIVE IsSubsequence(_, _)
IsSubsequence(a, b) ==
    IF a = <<>> THEN TRUE
    ELSE IF b = <<>> THEN FALSE
    ELSE IF Head(a) = Head(b) THEN IsSubsequence(Tail(a), Tail(b))
    ELSE IsSubsequence(a, Tail(b))

ComponentsFirst(events) ==
    \A i, j \in 1..Len(events) :
        (i < j) => ~(events[i].kind = "incident" /\ events[j].kind = "component")

\* the events of a cycle in the order of the payloads they come from
PayloadOrder(events, payload_events) ==
    IsSubsequence(events, payload_events)

ComponentsOf(components) ==
    [k \in 1..Len(components) |->
        <<components[k].id, components[k].name, components[k].status>>]

ComponentEventsOf(events) ==
    [k \in 1..Len(events) |-> <<events[k].id, events[k].name, events[k].status>>]

IncidentEventsOf(incidents) ==
    LET flat == Flatten(incidents)
    IN  [k \in 1..Len(flat) |-> log_incident_event(flat[k].incident, flat[k].update)]

\* C12: within a cycle every component event precedes every incident event;
\* the component events of a summary payload follow the order of its
\* components, and the incident events of an incidents payload follow the
\* order of its incidents and, within an incident, of its updates.
C12_EventOrder ==
    [][/\ ComponentsFirst(out')
       /\ (pc = "json" /\ response.valid_json /\ outcome'[endpoint] = "Fresh")
            => LET new == SubSeq(out', Len(out) + 1, Len(out'))
               IN  IF endpoint = SUMMARY_ENDPOINT
                   THEN /\ out = <<>>
                        /\ \A k \in 1..Len(new) : new[k].kind = "component"
                        /\ PayloadOrder(ComponentEventsOf(new),
                               ComponentsOf(parse_components(response.json).value))
                   ELSE /\ \A k \in 1..Len(new) : new[k].kind = "incident"
                        /\ PayloadOrder(new,
                               IncidentEventsOf(parse_incidents(response.json).value))
      ]_vars

\* a cycle that emitted two component events and then two incident events
C12_FourEvents ==
    /\ pc = "sleep"
    /\ Len(out) = 4
    /\ out[1].kind = "component" /\ out[1].id = "c1"
    /\ out[2].kind = "component" /\ out[2].id = "c2"
    /\ out[3].kind = "incident" /\ out[3].id = "u1"
    /\ out[4].kind = "incident" /\ out[4].id = "u2"

----------------------------------------------------------------------------
(* C13: cancellation *)

\* C13: when the loop has been left on a cancellation no cycle is half done:
\* each endpoint of the last cycle has been fetched and its fetch has ended.
C13_CancelledBetweenCycles ==
    pc = "cancelled" => \A ep \in Endpoints : outcome[ep] # "Pending"

----------------------------------------------------------------------------
(* C14: a cycle whose summary is processed and whose incidents fail *)

Failed == RecoverableErrors \cup {"Timeout"}

\* C14: when the summary of a cycle was processed and the incidents endpoint
\* then fails, no error leaves check_status_updates, the cycle has emitted no
\* incident event and one component event per component, and every component
\* event of the cycle is the stored state of its component.
C14_PartialProgressKept ==
    (outcome[SUMMARY_ENDPOINT] = "Fresh" /\ outcome[INCIDENTS_ENDPOINT] \in Failed)
        => /\ pc # "error"
           /\ \A k \in 1..Len(out) :
                 /\ out[k].kind = "component"
                 /\ state_key(out[k]) \in DOMAIN last_known_state
                 /\ last_known_state[state_key(out[k])] = current_state(out[k])
           /\ \A i, j \in 1..Len(out) : (out[i].id = out[j].id) => (i = j)

----------------------------------------------------------------------------
(* C15: processed_incident_updates only grows *)

\* C15: no step removes an id from processed_incident_updates.
C15_SeenOnlyGrows ==
    [][processed_incident_updates \subseteq processed_incident_updates']_vars

\* ids were added and a later cycle failed on the incidents endpoint
C15_GrewTwice ==
    /\ pc = "sleep"
    /\ processed_incident_updates = {"u1", "u2"}
    /\ outcome[INCIDENTS_ENDPOINT] = "NetworkError"
    /\ emitted["u1"] = 1 /\ emitted["u2"] = 1

----------------------------------------------------------------------------
(* C16: processed ids and emitted events *)

\* C16: every id of processed_incident_updates is the id of an incident event
\* that was written, also when the operation ended in an error raised while
\* the event was built.
C16_SeenOnlyIfEmitted ==
    \A id \in processed_incident_updates : emitted[id] >= 1

----------------------------------------------------------------------------
(* C17: components that leave the payload and come back *)

Tracked(lks, id) == ("component_" \o id) \in DOMAIN lks

Listed(components, id) == \E k \in 1..Len(components) : components[k].id = id

EventsAbout(events, id) ==
    SelectSeq(events, LAMBDA e : e.kind = "component" /\ e.id = id)

\* C17: a call of _detect_component_changes removes no entry of
\* last_known_state; for a tracked id that is not in the payload it prints
\* nothing and keeps the stored state; for a tracked id that is in the payload
\* (once) it prints nothing when the name and status are the ones last
\* announced for the id and one event, a change and not an Initial Status,
\* when they differ.
C17_DisappearanceNotTracked ==
    call.op = "components" =>
        /\ DOMAIN call.lks \subseteq DOMAIN last_known_state
        /\ \A id \in ComponentIds :
              (Tracked(call.lks, id) /\ ~Listed(call.arg, id))
                  => /\ EventsAbout(out, id) = <<>>
                     /\ last_known_state["component_" \o id]
                            = call.lks["component_" \o id]
        /\ \A k \in 1..Len(call.arg) :
              LET id == call.arg[k].id
                  about == EventsAbout(out, id)
              IN  (/\ Tracked(call.lks, id)
                   /\ \A j \in 1..Len(call.arg) : (call.arg[j].id = id) => (j = k))
                      => IF Signature(call.arg[k]) = call.ann[id]
                         THEN about = <<>>
                         ELSE /\ Len(about) = 1
                              /\ about[1].event_type # "Initial Status"

----------------------------------------------------------------------------
(* C18: monitor.py and openai_status_monitor.py side by side *)

\* C18: fed the same payloads, the monitor of monitor.py and the monitor of
\* openai_status_monitor.py hold the same last_known_state and the same
\* processed_incident_updates after every step, have stopped or not alike,
\* and the events of the step are the same once the emoji are taken away.
C18_TwinsAgree ==
    /\ twin.last_known_state = last_known_state
    /\ twin.processed_incident_updates = processed_incident_updates
    /\ UndecoratedAll(twin.out) = out
    /\ twin.stopped = (error # NoError)

----------------------------------------------------------------------------
(* C20: what was announced and what is stored *)

\* the claim for one monitor: its component states and its announcements
AnnouncedIsStored(lks, ann) ==
    \A id \in ComponentIds :
        /\ Tracked(lks, id) <=> id \in DOMAIN ann
        /\ Tracked(lks, id) /\ id \in DOMAIN ann
              => lks["component_" \o id] = SignatureText(ann[id])

\* C20: between operations, in each of the two monitors, a component id has
\* an entry in last_known_state exactly when an event (the first one is the
\* Initial Status) was printed for it, and the stored text is the name and
\* status of the latest event printed for the id.
C20_AnnouncedIsStored ==
    /\ AnnouncedIsStored(last_known_state, announced)
    /\ AnnouncedIsStored(twin.last_known_state, twin.announced)

----------------------------------------------------------------------------
(* C19: a stored validator and the payload it came with *)

\* the payload of version v of an endpoint has been applied to the memories
Applied(ep, v) ==
    IF ep = SUMMARY_ENDPOINT
    THEN LET components == parse_components(Docs(ep)[v])
         IN  /\ ~components.raised
             /\ \A k \in 1..Len(components.value) :
                    Tracked(last_known_state, components.value[k].id)
    ELSE LET incidents == parse_incidents(Docs(ep)[v])
         IN  /\ ~incidents.raised
             /\ \A id \in FeedIds(incidents.value) :
                    id \in processed_incident_updates /\ emitted[id] >= 1

\* C19: after a cycle, finished or ended by an error, a validator stored for
\* an endpoint is the validator of a payload that was decoded, parsed and
\* applied: its components are tracked, its updates are processed and printed.
C19_ValidatorMeansApplied ==
    pc \in {"sleep", "error"} =>
        \A ep \in DOMAIN etags :
            \E v \in DOMAIN Docs(ep) :
                /\ etags[ep] = strip(EntityTag(v), Q)
                /\ Applied(ep, v)

----------------------------------------------------------------------------
(* C21: two calls of check_status_updates that overlap *)

InitialEvents(events, id) ==
    SelectSeq(events, LAMBDA e : e.kind = "component" /\ e.id = id
                                   /\ e.event_type = "Initial Status")

\* C21: however two calls of check_status_updates on one monitor interleave
\* at their awaits, the events of both calls together hold at most one
\* incident event per update id and at most one Initial Status per component
\* id.
C21_OverlapEmitsOnce ==
    /\ \A id \in UpdateIds : emitted[id] <= 1 /\ CountEvents(out, id) <= 1
    /\ \A id \in ComponentIds : Len(InitialEvents(out, id)) <= 1

\* both calls built their incidents request while u1 was unknown, both were
\* given a feed with u1 and both returned
C21_BothSawU1 ==
    /\ \A t \in Tasks :
          /\ tasks[t].pc = "done"
          /\ tasks[t].seen = {}
          /\ "u1" \in tasks[t].ids
    /\ emitted["u1"] = 1
    /\ Len(InitialEvents(out, "c1")) = 1

----------------------------------------------------------------------------
(* C22: the product tags of an incident name *)

\* two characters that are one letter, whatever their case
SameLetter(a, b) ==
    a = b \/ \E i \in DOMAIN UpperCase : {a, b} = {UpperCase[i], LowerCase[i]}

\* the product occurs in the name as a case-insensitive substring
Occurs(product, name) ==
    \E i \in 1..Len(name) :
        /\ i + Len(product) - 1 <= Len(name)
        /\ \A j \in 1..Len(product) : SameLetter(name[i + j - 1], product[j])

Tagged(name) == { k \in DOMAIN products : Occurs(products[k], name) }

\* the products of the set, by falling index, each put before the text so far
RECURSIVE TagText(_, _, _)
TagText(tagged, k, text) ==
    IF k = 0 THEN text
    ELSE TagText(tagged, k - 1,
                 IF k \notin tagged THEN text
                 ELSE IF text = <<>> THEN products[k]
                 ELSE products[k] \o <<",", " ">> \o text)

\* C22: the result of _extract_products_from_incident is "OpenAI Services"
\* exactly when no product of the vocabulary occurs in the name as a
\* case-insensitive substring; otherwise it is the products that occur, each
\* once, in vocabulary order, separated by ", ".
C22_ProductTags ==
    extract.called =>
        LET tagged == Tagged(extract.incident_name)
        IN  /\ (extract.result = GenericLabel) <=> (tagged = {})
            /\ tagged # {} => extract.result = TagText(tagged, Len(products), <<>>)

\* "SORAChatgpt": both products are found, listed in vocabulary order
C22_SoraAndChatGPT ==
    /\ extract.called
    /\ extract.incident_name = <<"S", "O", "R", "A", "C", "h", "a", "t", "g", "p", "t">>
    /\ extract.result = <<"C", "h", "a", "t", "G", "P", "T", ",", " ", "S", "o", "r", "a">>
====
